---- MODULE Spec2Model ----
(***************************************************************************)
(* A model of the pilosa client (src/pilosa/client.py): the Cluster (host  *)
(* pool) with its round-robin cursor, the Client (dispatcher) with its     *)
(* request path __http_request, the schema operations create/delete/ensure *)
(* and query.  The server is the environment: it keeps the databases and   *)
(* frames it was asked to create and answers as the integration tests      *)
(* expect.  Exceptions follow Python 2 semantics (ConnectionError carries  *)
(* a message attribute, line 146).                                         *)
(***************************************************************************)
EXTENDS Integers, Sequences, FiniteSets, TLC

VARIABLES
    cluster,       \* Cluster: [hosts, next_index]
    client,        \* "absent" until Client.__init__ returned, then "built"
    current_host,  \* Client.__current_host
    dbs,           \* server: the databases that exist
    frames,        \* server: the frames that exist, as <<db, frame>>
    op,            \* the last operation the caller ran: [name, arg]
    err,           \* the exception that operation raised to the caller (NoErr if none)
    raw,           \* the exception the underlying request/create raised
    ret,           \* what the operation returned
    sent,          \* the host the operation's HTTP request was addressed to
    resp,          \* the HTTP response the operation received
    pre,           \* the Cluster as it was when the operation started
    fail,          \* the host whose transport failed in this operation, with the pool it was drawn from
    prevFail,      \* fail of the operation just before this one
    ensuredDb,     \* databases an ensure_database returned normally for, not deleted since
    ensuredFr,     \* frames an ensure_frame returned normally for, not deleted since
    fresh,         \* the Cluster holds the hosts it was constructed with and no Client was built over it
    calls,         \* number of get_host calls on the Cluster while fresh
    removed,       \* hosts taken out of the Cluster's list and not added again since
    handed,        \* the hosts of the unused Cluster the Client was built over: [open, hosts]
    sends,         \* the first requests of that Client, up to one per host: [host, failed]
    trail,         \* the latest get_host calls in a row that found and left the same hosts: [at, host]
    envelope,      \* a parsed response body handed to QueryResponse.from_dict
    decoded,       \* the QueryResponse from_dict built from it
    acc,           \* the last property read on that QueryResponse: [name, value, err]
    addr,          \* a URI object a caller holds, scheme and host as sequences of characters
    utext,         \* the last text made from it or given by the caller: [by, chars, was]
    parsed,        \* what URI.address made of that text: [from, uri, err]
    pc,            \* per thread: the line of get_host it is about to run, or "idle"
    local,         \* per thread: the values get_host holds between its lines
    sync,          \* whether the callers put their calls on the Cluster under one lock
    lock,          \* the thread holding that lock, or "none"
    done,          \* the calls on the shared Cluster in order of completion: [by, call, host, err]
    started        \* the number of calls started on the shared Cluster

vars == <<cluster, client, current_host, dbs, frames, op, err, raw, ret, sent,
          resp, pre, fail, prevFail, ensuredDb, ensuredFr, fresh, calls, removed, trail,
          handed, sends, envelope, decoded, acc, addr, utext, parsed,
          pc, local, sync, lock, done, started>>

DecodeVars == <<envelope, decoded, acc>>

URIVars == <<addr, utext, parsed>>

ThreadVars == <<pc, local, sync, lock, done, started>>

-----------------------------------------------------------------------------
(* Bounds of the model *)

\* hosts a Cluster is constructed with when a Client is built over it
MaxHosts == 2
\* elements of results and of profiles in a response body that is decoded
MaxItems == 2
\* characters of the scheme and of the host of a URI that is rendered and parsed
MaxLen == 2
\* calls the threads start on a shared Cluster
MaxOps == 4
\* hosts a Cluster holds when the caller drives it directly
MaxPool == 3
\* get_host calls counted on a Cluster that was not changed since construction
MaxCalls == 5

-----------------------------------------------------------------------------
(* URI *)

DefaultPort == 10101

URI(scheme, host, port) == [scheme |-> scheme, host |-> host, port |-> port]

\* a str is the sequence of its characters
DefaultScheme == << "h", "t", "t", "p" >>

DefaultHost == << "l", "o", "c", "a", "l", "h", "o", "s", "t" >>

DefaultURI == URI(DefaultScheme, DefaultHost, DefaultPort)

OtherHost == << "d", "b", "1", ".", "p", "i", "l", "o", "s", "a", ".", "c", "o", "m" >>

URISet == { DefaultURI,
            URI(DefaultScheme \o << "+", "t", "l", "s" >>, DefaultHost, DefaultPort),
            URI(DefaultScheme, OtherHost, 9999) }

NoHost == URI(<<>>, <<>>, 0)

URI___eq__(self, other) ==
    IF other = NoHost
    THEN FALSE
    ELSE self.scheme = other.scheme /\
         self.host = other.host /\
         self.port = other.port

-----------------------------------------------------------------------------
(* Exceptions *)

Error(kind, msg, status, body) ==
    [kind |-> kind, msg |-> msg, status |-> status, body |-> body]

NoErr == Error("none", "", 0, "")

NoHostsError == Error("PilosaError", "There are no available hosts", 0, "")

\* list.remove(x) raises ValueError when no element equals x
ValueError == Error("ValueError", "list.remove(x): x not in list", 0, "")

PilosaNotAvailable == Error("PilosaNotAvailable", "connection error", 0, "")

DatabaseExistsError == Error("DatabaseExistsError", "", 0, "")

FrameExistsError == Error("FrameExistsError", "", 0, "")

ServerError(status, content) ==
    Error("PilosaError", "Server error (%d): %s", status, content)

QueryError(message) == Error("PilosaError", message, 0, "")

PilosaURIError == Error("PilosaURIError", "Not a Pilosa URI", 0, "")

\* x % 0
ZeroDivisionError == Error("ZeroDivisionError", "integer division or modulo by zero", 0, "")

\* xs[i] with i >= len(xs)
IndexError == Error("IndexError", "list index out of range", 0, "")

-----------------------------------------------------------------------------
(* URI as text *)

Letters == { "a", "b", "c", "d", "e", "f", "g", "h", "i", "j", "k", "l", "m",
             "n", "o", "p", "q", "r", "s", "t", "u", "v", "w", "x", "y", "z" }

DigitChars == << "0", "1", "2", "3", "4", "5", "6", "7", "8", "9" >>

Digits == { DigitChars[i] : i \in 1..Len(DigitChars) }

\* [+a-z]
SchemeClass == Letters \cup { "+" }

\* [0-9a-z.-]
HostClass == Digits \cup Letters \cup { ".", "-" }

RECURSIVE Decimal(_)
\* "%s" % n for an int n >= 0
Decimal(n) ==
    IF n < 10 THEN << DigitChars[n + 1] >>
    ELSE Append(Decimal(n \div 10), DigitChars[(n % 10) + 1])

DigitValue(ch) == (CHOOSE i \in 1..Len(DigitChars) : DigitChars[i] = ch) - 1

RECURSIVE int(_)
\* int(s) for a str of one or more digits
int(ds) ==
    IF Len(ds) = 0 THEN 0
    ELSE int(SubSeq(ds, 1, Len(ds) - 1)) * 10 + DigitValue(ds[Len(ds)])

AllIn(s, class) == \A i \in 1..Len(s) : s[i] \in class

\* str.index(ch): the first position of ch, 0 for the ValueError of an absent ch
Index(s, ch) ==
    IF \E i \in 1..Len(s) : s[i] = ch
    THEN CHOOSE i \in 1..Len(s) : s[i] = ch /\ \A j \in 1..(i - 1) : s[j] # ch
    ELSE 0

\* the ways __PATTERN matches the whole of address: a characters of scheme
\* before "://" (0: group 1 absent), b characters of host (0: group 3 absent),
\* c digits after ":" (0: group 4 absent)
Matches(address) ==
    LET n == Len(address)
    IN  { m \in [a : 0..n, b : 0..n, c : 0..n] :
            LET sEnd == IF m.a = 0 THEN 0 ELSE m.a + 3
                hEnd == sEnd + m.b
                pEnd == IF m.c = 0 THEN hEnd ELSE hEnd + 1 + m.c
            IN  /\ pEnd = n
                /\ m.a > 0 => /\ AllIn(SubSeq(address, 1, m.a), SchemeClass)
                              /\ SubSeq(address, m.a + 1, m.a + 3) = << ":", "/", "/" >>
                /\ AllIn(SubSeq(address, sEnd + 1, hEnd), HostClass)
                /\ m.c > 0 => /\ address[hEnd + 1] = ":"
                              /\ AllIn(SubSeq(address, hEnd + 2, pEnd), Digits) }

\* the order in which the backtracking matcher tries them: an optional group
\* present before absent, a repetition long before short, left to right
TriedBefore(m, o) ==
    \/ m.a > o.a
    \/ m.a = o.a /\ m.b > o.b
    \/ m.a = o.a /\ m.b = o.b /\ m.c >= o.c

\* __PATTERN.search(address): the groups 2, 3 and 5 of the first match, each
\* empty when its group took no part; found is FALSE for no match
Search(address) ==
    LET ms == Matches(address)
    IN  IF ms = {}
        THEN [found |-> FALSE, scheme |-> <<>>, host |-> <<>>, port |-> <<>>]
        ELSE LET m == CHOOSE x \in ms : \A o \in ms : TriedBefore(x, o)
                 sEnd == IF m.a = 0 THEN 0 ELSE m.a + 3
             IN  [found |-> TRUE,
                  scheme |-> SubSeq(address, 1, m.a),
                  host |-> SubSeq(address, sEnd + 1, sEnd + m.b),
                  port |-> IF m.c = 0 THEN <<>>
                           ELSE SubSeq(address, sEnd + m.b + 2, sEnd + m.b + 1 + m.c)]

\* _parse keeping the default port for a port that is 0
URI__parse_zero_port_default(self, address) ==
    LET m == Search(address)
    IN  IF m.found
        THEN [self |-> URI(IF Len(m.scheme) > 0 THEN m.scheme ELSE self.scheme,
                           IF Len(m.host) > 0 THEN m.host ELSE self.host,
                           IF Len(m.port) > 0 /\ int(m.port) # 0 THEN int(m.port) ELSE self.port),
              err |-> NoErr]
        ELSE [self |-> self, err |-> PilosaURIError]

URI__parse(self, address) ==
    LET m == Search(address)
    IN  IF m.found
        THEN [self |-> URI(IF Len(m.scheme) > 0 THEN m.scheme ELSE self.scheme,
                           IF Len(m.host) > 0 THEN m.host ELSE self.host,
                           IF Len(m.port) > 0 THEN int(m.port) ELSE self.port),
              err |-> NoErr]
        ELSE [self |-> self, err |-> PilosaURIError]

URI_address(address) == URI__parse(URI(DefaultScheme, DefaultHost, DefaultPort), address)

Render(scheme, host, port) ==
    scheme \o << ":", "/", "/" >> \o host \o << ":" >> \o Decimal(port)

URI___str__(self) == Render(self.scheme, self.host, self.port)

\* normalize storing the cut scheme in the object
URI_normalize_in_place(self) ==
    LET index == Index(self.scheme, "+")
        scheme == IF index # 0 THEN SubSeq(self.scheme, 1, index - 1) ELSE self.scheme
    IN  [self |-> [self EXCEPT !.scheme = scheme], text |-> Render(scheme, self.host, self.port)]

URI_normalize(self) ==
    LET index == Index(self.scheme, "+")
        scheme == IF index # 0 THEN SubSeq(self.scheme, 1, index - 1) ELSE self.scheme
    IN  [self |-> self, text |-> Render(scheme, self.host, self.port)]

-----------------------------------------------------------------------------
(* Cluster *)

Cluster___init__(hs) == [hosts |-> hs, next_index |-> 0]

\* list.index under URI.__eq__: the first position holding an equal entry, 0 if none
FirstEqual(hs, uri) ==
    IF \E i \in 1..Len(hs) : URI___eq__(hs[i], uri)
    THEN CHOOSE i \in 1..Len(hs) :
            /\ URI___eq__(hs[i], uri)
            /\ \A j \in 1..(i - 1) : ~URI___eq__(hs[j], uri)
    ELSE 0

RemoveAt(hs, i) == [j \in 1..(Len(hs) - 1) |-> IF j < i THEN hs[j] ELSE hs[j + 1]]

Cluster_add_host(self, uri) ==
    [cluster |-> [self EXCEPT !.hosts = Append(self.hosts, uri)], err |-> NoErr]

\* remove_host deleting every equal entry instead of the first
Cluster_remove_host_all(self, uri) ==
    IF FirstEqual(self.hosts, uri) = 0
    THEN [cluster |-> self, err |-> ValueError]
    ELSE [cluster |-> [self EXCEPT !.hosts = SelectSeq(self.hosts, LAMBDA h : ~URI___eq__(h, uri))],
          err |-> NoErr]

Cluster_remove_host(self, uri) ==
    LET i == FirstEqual(self.hosts, uri)
    IN  IF i = 0
        THEN [cluster |-> self, err |-> ValueError]
        ELSE [cluster |-> [self EXCEPT !.hosts = RemoveAt(self.hosts, i)], err |-> NoErr]

\* get_host taking the host it returns out of the list
Cluster_get_host_pop(self) ==
    IF Len(self.hosts) = 0
    THEN [cluster |-> self, host |-> NoHost, err |-> NoHostsError]
    ELSE [cluster |-> [hosts |-> RemoveAt(self.hosts, (self.next_index % Len(self.hosts)) + 1),
                       next_index |-> (self.next_index + 1) % Len(self.hosts)],
          host |-> self.hosts[(self.next_index % Len(self.hosts)) + 1],
          err |-> NoErr]

\* get_host advancing the cursor before it reads the host
Cluster_get_host_advance_first(self) ==
    IF Len(self.hosts) = 0
    THEN [cluster |-> self, host |-> NoHost, err |-> NoHostsError]
    ELSE [cluster |-> [self EXCEPT !.next_index = (self.next_index + 1) % Len(self.hosts)],
          host |-> self.hosts[((self.next_index + 1) % Len(self.hosts)) + 1],
          err |-> NoErr]

\* get_host refusing a pool of one host as if it were empty
Cluster_get_host_refuse_single(self) ==
    IF Len(self.hosts) <= 1
    THEN [cluster |-> self, host |-> NoHost, err |-> NoHostsError]
    ELSE [cluster |-> [self EXCEPT !.next_index = (self.next_index + 1) % Len(self.hosts)],
          host |-> self.hosts[(self.next_index % Len(self.hosts)) + 1],
          err |-> NoErr]

\* get_host reading the last entry when the cursor is past the end
Cluster_get_host_clamp(self) ==
    IF Len(self.hosts) = 0
    THEN [cluster |-> self, host |-> NoHost, err |-> NoHostsError]
    ELSE [cluster |-> [self EXCEPT !.next_index = (self.next_index + 1) % Len(self.hosts)],
          host |-> self.hosts[(IF self.next_index >= Len(self.hosts)
                               THEN Len(self.hosts) - 1 ELSE self.next_index) + 1],
          err |-> NoErr]

Cluster_get_host(self) ==
    IF Len(self.hosts) = 0
    THEN [cluster |-> self, host |-> NoHost, err |-> NoHostsError]
    ELSE [cluster |-> [self EXCEPT !.next_index = (self.next_index + 1) % Len(self.hosts)],
          host |-> self.hosts[(self.next_index % Len(self.hosts)) + 1],
          err |-> NoErr]

-----------------------------------------------------------------------------
(* The server (environment).  It answers the schema requests from the      *)
(* databases and frames it holds; the conflict messages are the ones the   *)
(* client recognizes.                                                      *)

DBs == {"d1"}

FrameNames == {"f1"}

Frames == DBs \X FrameNames

NoFrame == ""

DatabaseExistsMsg == "database already exists\n"

FrameExistsMsg == "frame already exists\n"

NoJson == [none |-> TRUE]

Response(status, text, json) == [status_code |-> status, text |-> text, json |-> json]

NoResp == Response(0, "", NoJson)

\* "normal": a delete of something missing is refused; "lenient": it is accepted;
\* "internal": the server fails with an error of its own
ServerModes == {"normal", "lenient", "internal"}

Answer(response, ds, fs) == [response |-> response, dbs |-> ds, frames |-> fs]

ServerAnswer(method, path, db, fr, mode) ==
    LET ok == Response(200, "", NoJson)
    IN  IF mode = "internal"
        THEN Answer(Response(500, "internal server error\n", NoJson), dbs, frames)
        ELSE IF path = "/db" /\ method = "post"
        THEN IF db \in dbs
             THEN Answer(Response(409, DatabaseExistsMsg, NoJson), dbs, frames)
             ELSE Answer(ok, dbs \cup {db}, frames)
        ELSE IF path = "/db" /\ method = "delete"
        THEN IF db \in dbs
             THEN Answer(ok, dbs \ {db}, {f \in frames : f[1] # db})
             ELSE IF mode = "lenient"
                  THEN Answer(ok, dbs, frames)
                  ELSE Answer(Response(404, "database not found\n", NoJson), dbs, frames)
        ELSE IF path = "/frame" /\ method = "post"
        THEN IF db \notin dbs
             THEN Answer(Response(404, "database not found\n", NoJson), dbs, frames)
             ELSE IF <<db, fr>> \in frames
                  THEN Answer(Response(409, FrameExistsMsg, NoJson), dbs, frames)
                  ELSE Answer(ok, dbs, frames \cup {<<db, fr>>})
        ELSE IF <<db, fr>> \in frames
             THEN Answer(ok, dbs, frames \ {<<db, fr>>})
             ELSE IF mode = "lenient"
                  THEN Answer(ok, dbs, frames)
                  ELSE Answer(Response(404, "frame not found\n", NoJson), dbs, frames)

-----------------------------------------------------------------------------
(* Client *)

NO_RESPONSE == 0
RAW_RESPONSE == 1
ERROR_CHECKED_RESPONSE == 2

None == [some |-> FALSE]

Some(v) == [some |-> TRUE, value |-> v]

NoFail == [host |-> NoHost, pool |-> <<>>]

\* What a call hands back: the Cluster after it, the exception it raised (err),
\* the exception the request itself raised (raw), its return value, the host the
\* request went to, the response received and whether the transport failed.
Outcome(c, e, r, to, rsp, failed) ==
    [cluster |-> c, err |-> e, raw |-> e, ret |-> r, sent |-> to, resp |-> rsp,
     failed |-> failed]

\* the table of recognized errors without its frame entry
Client___RECOGNIZED_ERRORS_no_frame(text) ==
    IF text = DatabaseExistsMsg THEN DatabaseExistsError ELSE NoErr

Client___RECOGNIZED_ERRORS(text) ==
    IF text = DatabaseExistsMsg THEN DatabaseExistsError
    ELSE IF text = FrameExistsMsg THEN FrameExistsError
    ELSE NoErr

\* the host remove_host is called with when the transport fails (line 145)
HostToRemove(uri, captured) == captured

\* __http_request asking the Cluster for a host twice and using the second
Client___http_request_two_gets(c, captured, conn, response, client_response) ==
    LET g == Cluster_get_host(Cluster_get_host(c).cluster)
        uri == g.host
    IN  IF g.err # NoErr
        THEN Outcome(c, g.err, None, NoHost, NoResp, FALSE)
        ELSE IF ~conn
        THEN LET rm == Cluster_remove_host(g.cluster, HostToRemove(uri, captured))
             IN  IF rm.err # NoErr
                 THEN Outcome(rm.cluster, rm.err, None, uri, NoResp, TRUE)
                 ELSE Outcome(rm.cluster, PilosaNotAvailable, None, uri, NoResp, TRUE)
        ELSE IF client_response = RAW_RESPONSE
        THEN Outcome(g.cluster, NoErr, Some(response), uri, response, FALSE)
        ELSE IF 200 <= response.status_code /\ response.status_code < 300
        THEN Outcome(g.cluster, NoErr,
                     IF client_response = NO_RESPONSE THEN None ELSE Some(response),
                     uri, response, FALSE)
        ELSE LET ex == Client___RECOGNIZED_ERRORS(response.text)
             IN  IF ex # NoErr
                 THEN Outcome(g.cluster, ex, None, uri, response, FALSE)
                 ELSE Outcome(g.cluster, ServerError(response.status_code, response.text),
                              None, uri, response, FALSE)

Client___http_request(c, captured, conn, response, client_response) ==
    LET g == Cluster_get_host(c)
        uri == g.host
    IN  IF g.err # NoErr
        THEN Outcome(c, g.err, None, NoHost, NoResp, FALSE)
        ELSE IF ~conn
        THEN LET rm == Cluster_remove_host(g.cluster, HostToRemove(uri, captured))
             IN  IF rm.err # NoErr
                 THEN Outcome(rm.cluster, rm.err, None, uri, NoResp, TRUE)
                 ELSE Outcome(rm.cluster, PilosaNotAvailable, None, uri, NoResp, TRUE)
        ELSE IF client_response = RAW_RESPONSE
        THEN Outcome(g.cluster, NoErr, Some(response), uri, response, FALSE)
        ELSE IF 200 <= response.status_code /\ response.status_code < 300
        THEN Outcome(g.cluster, NoErr,
                     IF client_response = NO_RESPONSE THEN None ELSE Some(response),
                     uri, response, FALSE)
        ELSE LET ex == Client___RECOGNIZED_ERRORS(response.text)
             IN  IF ex # NoErr
                 THEN Outcome(g.cluster, ex, None, uri, response, FALSE)
                 ELSE Outcome(g.cluster, ServerError(response.status_code, response.text),
                              None, uri, response, FALSE)

Client___create_or_delete_database(c, captured, conn, response) ==
    [Client___http_request(c, captured, conn, response, NO_RESPONSE) EXCEPT !.ret = None]

Client___create_or_delete_frame(c, captured, conn, response) ==
    [Client___http_request(c, captured, conn, response, NO_RESPONSE) EXCEPT !.ret = None]

\* ensure_database catching the wrong exception class
Client_ensure_database_wrong_catch(c, captured, conn, response) ==
    LET r == Client___create_or_delete_database(c, captured, conn, response)
    IN  IF r.err.kind = "FrameExistsError" THEN [r EXCEPT !.err = NoErr] ELSE r

Client_ensure_database(c, captured, conn, response) ==
    LET r == Client___create_or_delete_database(c, captured, conn, response)
    IN  IF r.err.kind = "DatabaseExistsError" THEN [r EXCEPT !.err = NoErr] ELSE r

\* ensure_frame with a bare except
Client_ensure_frame_catch_all(c, captured, conn, response) ==
    LET r == Client___create_or_delete_frame(c, captured, conn, response)
    IN  [r EXCEPT !.err = NoErr]

Client_ensure_frame(c, captured, conn, response) ==
    LET r == Client___create_or_delete_frame(c, captured, conn, response)
    IN  IF r.err.kind = "FrameExistsError" THEN [r EXCEPT !.err = NoErr] ELSE r

-----------------------------------------------------------------------------
(* Response model.  A JSON object is a function on the keys it has; a JSON  *)
(* value inside results carries its shape, which is what isinstance reads. *)

Get(d, key, default) == IF key \in DOMAIN d THEN d[key] ELSE default

EmptyObject == <<>>

JDict(d) == [shape |-> "dict", v |-> d]

JList(l) == [shape |-> "list", v |-> l]

JInt(n) == [shape |-> "int", v |-> n]

\* JSON true/false: a Python bool, which is an int to isinstance
JBool(b) == [shape |-> "bool", v |-> b]

JNull == [shape |-> "null", v |-> 0]

BitmapResult(bits, attributes) == [bits |-> bits, attributes |-> attributes]

BitmapResult_from_dict(d) ==
    BitmapResult(Get(d, "bits", <<>>), Get(d, "attrs", EmptyObject))

CountResultItem_from_dict(d) == [id |-> d.id, count |-> d.count]

QueryResult(bitmap, count_items, count) ==
    [bitmap |-> bitmap, count_items |-> count_items, count |-> count]

\* from_item keeping only the first element of an array
QueryResult_from_item_first_only(item) ==
    LET result == QueryResult(BitmapResult(<<>>, EmptyObject), <<>>, 0)
    IN  IF item.shape = "dict"
        THEN [result EXCEPT !.bitmap = BitmapResult_from_dict(item.v)]
        ELSE IF item.shape = "list"
        THEN [result EXCEPT !.count_items =
                 [i \in 1..(IF Len(item.v) = 0 THEN 0 ELSE 1) |-> CountResultItem_from_dict(item.v[i])]]
        ELSE IF item.shape \in {"int", "bool"}
        THEN [result EXCEPT !.count = item.v]
        ELSE result

QueryResult_from_item(item) ==
    LET result == QueryResult(BitmapResult(<<>>, EmptyObject), <<>>, 0)
    IN  IF item.shape = "dict"
        THEN [result EXCEPT !.bitmap = BitmapResult_from_dict(item.v)]
        ELSE IF item.shape = "list"
        THEN [result EXCEPT !.count_items =
                 [i \in 1..Len(item.v) |-> CountResultItem_from_dict(item.v[i])]]
        ELSE IF item.shape \in {"int", "bool"}
        THEN [result EXCEPT !.count = item.v]
        ELSE result

ProfileItem_from_dict(d) == [id |-> d.id, attributes |-> d.attrs]

QueryResponse_from_dict(d) ==
    LET rs == Get(d, "results", <<>>)
        ps == Get(d, "profiles", <<>>)
    IN  [results |-> [i \in 1..Len(rs) |-> QueryResult_from_item(rs[i])],
         profiles |-> [i \in 1..Len(ps) |-> ProfileItem_from_dict(ps[i])],
         error_message |-> Get(d, "error", "")]

\* result reading the last element instead of the first
QueryResponse_result_last(self) ==
    IF Len(self.results) > 0 THEN Some(self.results[Len(self.results)]) ELSE None

QueryResponse_result(self) ==
    IF Len(self.results) > 0 THEN Some(self.results[1]) ELSE None

QueryResponse_profile(self) ==
    IF Len(self.profiles) > 0 THEN Some(self.profiles[1]) ELSE None

\* the bodies the server answers a query with
QueryBodies ==
    << [results |-> << JDict([bits |-> <<20>>, attrs |-> EmptyObject]) >>],
       [results |-> << JList(<< [id |-> 155, count |-> 1] >>), JInt(2) >>,
        profiles |-> << [id |-> 20, attrs |-> [name |-> "bombo"]] >>],
       EmptyObject,
       [error |-> "parse error at col_id"],
       [error |-> ""],
       [results |-> << JInt(2) >>, error |-> "database not found"] >>

QueryStatuses == {200, 400}

\* query testing the error message for truth instead of the key for presence
Client_query_truthy_error(c, captured, conn, response) ==
    LET r == Client___http_request(c, captured, conn, response, RAW_RESPONSE)
    IN  IF r.err # NoErr
        THEN r
        ELSE IF Get(response.json, "error", "") # ""
        THEN [r EXCEPT !.err = QueryError(response.json["error"]), !.ret = None]
        ELSE [r EXCEPT !.ret = Some(QueryResponse_from_dict(response.json))]

Client_query(c, captured, conn, response) ==
    LET r == Client___http_request(c, captured, conn, response, RAW_RESPONSE)
    IN  IF r.err # NoErr
        THEN r
        ELSE IF "error" \in DOMAIN response.json
        THEN [r EXCEPT !.err = QueryError(response.json["error"]), !.ret = None]
        ELSE [r EXCEPT !.ret = Some(QueryResponse_from_dict(response.json))]

-----------------------------------------------------------------------------
(* The state machine.  Under Spec a caller builds one Cluster, one Client   *)
(* over it, and runs the Client's operations one at a time (the library is *)
(* synchronous).  Under SpecPool a caller builds one Cluster and runs its  *)
(* operations directly.                                                    *)

Seqs(S, n) == UNION { [1..k -> S] : k \in 0..n }

NotHanded == [open |-> FALSE, hosts |-> <<>>]

InitWith(n) ==
    /\ cluster \in { Cluster___init__(hs) : hs \in Seqs(URISet, n) }
    /\ client = "absent"
    /\ current_host = NoHost
    /\ dbs = {}
    /\ frames = {}
    /\ op = [name |-> "Cluster", arg |-> <<>>]
    /\ err = NoErr
    /\ raw = NoErr
    /\ ret = None
    /\ sent = NoHost
    /\ resp = NoResp
    /\ pre = cluster
    /\ fail = NoFail
    /\ prevFail = NoFail
    /\ ensuredDb = {}
    /\ ensuredFr = {}
    /\ fresh = TRUE
    /\ calls = 0
    /\ removed = {}
    /\ trail = <<>>
    /\ handed = NotHanded
    /\ sends = <<>>

\* nothing was decoded
NoDecode ==
    /\ envelope = EmptyObject
    /\ decoded = None
    /\ acc = None

NoText == [by |-> "", chars |-> <<>>, was |-> NoHost]

\* no URI was rendered or parsed
NoURI ==
    /\ addr = NoHost
    /\ utext = NoText
    /\ parsed = None

Threads == { "t1", "t2" }

NoLocal == [index |-> 0, next_host |-> NoHost, next_index |-> 0]

\* no thread shares the Cluster
NoThreads ==
    /\ pc = [t \in Threads |-> "idle"]
    /\ local = [t \in Threads |-> NoLocal]
    /\ sync = FALSE
    /\ lock = "none"
    /\ done = <<>>
    /\ started = 0

Init == InitWith(MaxHosts) /\ NoDecode /\ NoURI /\ NoThreads

InitPool == InitWith(MaxPool) /\ NoDecode /\ NoURI /\ NoThreads

\* bookkeeping common to every operation on the Cluster `before`
Finish(name, arg, before, h, isRequest) ==
    /\ op' = [name |-> name, arg |-> arg]
    /\ cluster' = h.cluster
    /\ pre' = before
    /\ err' = h.err
    /\ raw' = h.raw
    /\ ret' = h.ret
    /\ sent' = h.sent
    /\ resp' = h.resp
    /\ fail' = IF h.failed THEN [host |-> h.sent, pool |-> before.hosts] ELSE NoFail
    /\ prevFail' = IF isRequest THEN fail ELSE NoFail
    /\ UNCHANGED <<DecodeVars, URIVars, ThreadVars>>

Occurrences(hs, x) == Cardinality({ i \in 1..Len(hs) : hs[i] = x })

\* the hosts of which `after` holds fewer entries than `before`
Gone(before, after) ==
    { before.hosts[i] : i \in { k \in 1..Len(before.hosts) :
        Occurrences(after.hosts, before.hosts[k]) < Occurrences(before.hosts, before.hosts[k]) } }

LastN(s, n) == IF Len(s) <= n THEN s ELSE SubSeq(s, Len(s) - n + 1, Len(s))

\* the log of get_host calls after an operation that started on `before` with the
\* log `log` and in which get_host returned `got` (NoHost: not called, or raised)
Trail(log, before, h, got) ==
    IF h.cluster.hosts # before.hosts \/ h.failed
    THEN <<>>
    ELSE IF got # NoHost
    THEN LastN(Append(log, [at |-> before.next_index, host |-> got]), Len(before.hosts))
    ELSE log

\* a Cluster operation the caller runs directly
PoolOutcome(r, v) == Outcome(r.cluster, r.err, v, NoHost, NoResp, FALSE)

AddHost(uri) ==
    /\ Len(cluster.hosts) < MaxPool
    /\ Finish("add_host", uri, cluster, PoolOutcome(Cluster_add_host(cluster, uri), None), FALSE)
    /\ fresh' = FALSE
    /\ calls' = 0
    /\ removed' = removed \ {uri}
    /\ trail' = <<>>
    /\ handed' = NotHanded
    /\ sends' = <<>>
    /\ UNCHANGED <<client, current_host, dbs, frames, ensuredDb, ensuredFr>>

RemoveHost(uri) ==
    /\ Finish("remove_host", uri, cluster, PoolOutcome(Cluster_remove_host(cluster, uri), None), FALSE)
    /\ fresh' = (fresh /\ cluster'.hosts = cluster.hosts)
    /\ calls' = IF fresh' THEN calls ELSE 0
    /\ removed' = removed \cup Gone(cluster, cluster')
    /\ trail' = IF cluster'.hosts = cluster.hosts THEN trail ELSE <<>>
    /\ handed' = NotHanded
    /\ sends' = <<>>
    /\ UNCHANGED <<client, current_host, dbs, frames, ensuredDb, ensuredFr>>

GetHost ==
    /\ calls < MaxCalls
    /\ LET g == Cluster_get_host(cluster)
       IN  /\ Finish("get_host", <<>>, cluster,
                     PoolOutcome(g, IF g.err = NoErr THEN Some(g.host) ELSE None), FALSE)
           /\ trail' = Trail(trail, cluster, PoolOutcome(g, None), g.host)
    /\ fresh' = fresh
    /\ calls' = IF fresh THEN calls + 1 ELSE 0
    /\ handed' = NotHanded
    /\ sends' = <<>>
    /\ UNCHANGED <<client, current_host, dbs, frames, ensuredDb, ensuredFr, removed>>

NextPool ==
    \/ \E uri \in URISet : AddHost(uri)
    \/ \E uri \in URISet : RemoveHost(uri)
    \/ GetHost

SpecPool == InitPool /\ [][NextPool]_vars

\* a constructor that looks at the next host and leaves the cursor where it is
NewClient_peek(given) ==
    /\ client = "absent"
    /\ LET used == IF given THEN cluster ELSE Cluster___init__(<<DefaultURI>>)
           g == [Cluster_get_host(used) EXCEPT !.cluster = used]
       IN  /\ Finish("Client", <<>>, used,
                     PoolOutcome(g, IF g.err = NoErr THEN Some(g.host) ELSE None), FALSE)
           /\ client' = IF g.err = NoErr THEN "built" ELSE "absent"
           /\ current_host' = g.host
           /\ trail' = Trail(IF given THEN trail ELSE <<>>, used, PoolOutcome(g, None), g.host)
           /\ removed' = IF given THEN removed ELSE {}
           /\ handed' = IF given /\ fresh /\ g.err = NoErr
                         THEN [open |-> TRUE, hosts |-> used.hosts] ELSE NotHanded
           /\ sends' = <<>>
    /\ fresh' = FALSE
    /\ calls' = 0
    /\ UNCHANGED <<dbs, frames, ensuredDb, ensuredFr>>

\* Client(cluster): `given` is FALSE when the caller passes no cluster
NewClient(given) ==
    /\ client = "absent"
    /\ LET used == IF given THEN cluster ELSE Cluster___init__(<<DefaultURI>>)
           g == Cluster_get_host(used)
       IN  /\ Finish("Client", <<>>, used,
                     PoolOutcome(g, IF g.err = NoErr THEN Some(g.host) ELSE None), FALSE)
           /\ client' = IF g.err = NoErr THEN "built" ELSE "absent"
           /\ current_host' = g.host
           /\ trail' = Trail(IF given THEN trail ELSE <<>>, used, PoolOutcome(g, None), g.host)
           /\ removed' = IF given THEN removed ELSE {}
           /\ handed' = IF given /\ fresh /\ g.err = NoErr
                         THEN [open |-> TRUE, hosts |-> used.hosts] ELSE NotHanded
           /\ sends' = <<>>
    /\ fresh' = FALSE
    /\ calls' = 0
    /\ UNCHANGED <<dbs, frames, ensuredDb, ensuredFr>>

\* bookkeeping common to the Client's requests
Request(name, arg, h, a) ==
    /\ Finish(name, arg, cluster, h, TRUE)
    /\ trail' = Trail(trail, cluster, h, h.sent)
    /\ removed' = removed \cup Gone(cluster, h.cluster)
    /\ IF handed.open /\ Len(sends) < Len(handed.hosts)
       THEN /\ sends' = Append(sends, [host |-> h.sent, failed |-> h.failed])
            /\ handed' = handed
       ELSE /\ sends' = <<>>
            /\ handed' = NotHanded
    /\ dbs' = IF h.resp # NoResp THEN a.dbs ELSE dbs
    /\ frames' = IF h.resp # NoResp THEN a.frames ELSE frames
    /\ UNCHANGED <<client, current_host, fresh, calls>>

CreateDatabase(db) ==
    /\ client = "built"
    /\ \E conn \in BOOLEAN, mode \in ServerModes :
         LET a == ServerAnswer("post", "/db", db, NoFrame, mode)
             h == Client___create_or_delete_database(cluster, current_host, conn, a.response)
         IN  Request("create_database", <<db>>, h, a)
    /\ UNCHANGED <<ensuredDb, ensuredFr>>

DeleteDatabase(db) ==
    /\ client = "built"
    /\ \E conn \in BOOLEAN, mode \in ServerModes :
         LET a == ServerAnswer("delete", "/db", db, NoFrame, mode)
             h == Client___create_or_delete_database(cluster, current_host, conn, a.response)
         IN  /\ Request("delete_database", <<db>>, h, a)
             /\ ensuredDb' = ensuredDb \ {db}
             /\ ensuredFr' = {f \in ensuredFr : f[1] # db}

CreateFrame(db, fr) ==
    /\ client = "built"
    /\ \E conn \in BOOLEAN, mode \in ServerModes :
         LET a == ServerAnswer("post", "/frame", db, fr, mode)
             h == Client___create_or_delete_frame(cluster, current_host, conn, a.response)
         IN  Request("create_frame", <<db, fr>>, h, a)
    /\ UNCHANGED <<ensuredDb, ensuredFr>>

DeleteFrame(db, fr) ==
    /\ client = "built"
    /\ \E conn \in BOOLEAN, mode \in ServerModes :
         LET a == ServerAnswer("delete", "/frame", db, fr, mode)
             h == Client___create_or_delete_frame(cluster, current_host, conn, a.response)
         IN  /\ Request("delete_frame", <<db, fr>>, h, a)
             /\ ensuredFr' = ensuredFr \ {<<db, fr>>}
    /\ UNCHANGED ensuredDb

EnsureDatabase(db) ==
    /\ client = "built"
    /\ \E conn \in BOOLEAN, mode \in ServerModes :
         LET a == ServerAnswer("post", "/db", db, NoFrame, mode)
             h == Client_ensure_database(cluster, current_host, conn, a.response)
         IN  /\ Request("ensure_database", <<db>>, h, a)
             /\ ensuredDb' = IF h.err = NoErr THEN ensuredDb \cup {db} ELSE ensuredDb
    /\ UNCHANGED ensuredFr

EnsureFrame(db, fr) ==
    /\ client = "built"
    /\ \E conn \in BOOLEAN, mode \in ServerModes :
         LET a == ServerAnswer("post", "/frame", db, fr, mode)
             h == Client_ensure_frame(cluster, current_host, conn, a.response)
         IN  /\ Request("ensure_frame", <<db, fr>>, h, a)
             /\ ensuredFr' = IF h.err = NoErr THEN ensuredFr \cup {<<db, fr>>} ELSE ensuredFr
    /\ UNCHANGED ensuredDb

Query(db) ==
    /\ client = "built"
    /\ \E conn \in BOOLEAN, status \in QueryStatuses, b \in 1..Len(QueryBodies) :
         LET a == Answer(Response(status, "", QueryBodies[b]), dbs, frames)
             h == Client_query(cluster, current_host, conn, a.response)
         IN  Request("query", <<db>>, h, a)
    /\ UNCHANGED <<ensuredDb, ensuredFr>>

Next ==
    \/ \E given \in BOOLEAN : NewClient(given)
    \/ \E db \in DBs : CreateDatabase(db)
    \/ \E db \in DBs : DeleteDatabase(db)
    \/ \E f \in Frames : CreateFrame(f[1], f[2])
    \/ \E f \in Frames : DeleteFrame(f[1], f[2])
    \/ \E db \in DBs : EnsureDatabase(db)
    \/ \E f \in Frames : EnsureFrame(f[1], f[2])
    \/ \E db \in DBs : Query(db)

Spec == Init /\ [][Next]_vars

\* A caller that uses the Cluster directly and through a Client over it.
MixedHosts == { DefaultURI, URI(DefaultScheme, OtherHost, 9999) }

InitMixed ==
    /\ InitWith(MaxHosts)
    /\ NoDecode
    /\ NoURI
    /\ NoThreads
    /\ \A i \in 1..Len(cluster.hosts) : cluster.hosts[i] \in MixedHosts

NextMixed ==
    \/ \E given \in BOOLEAN : NewClient(given)
    \/ \E uri \in MixedHosts : AddHost(uri)
    \/ \E uri \in MixedHosts : RemoveHost(uri)
    \/ GetHost
    \/ \E db \in DBs : CreateDatabase(db)
    \/ \E db \in DBs : Query(db)

SpecMixed == InitMixed /\ [][NextMixed]_vars

\* A caller that decodes a response body and reads the decoded response.
WireItems ==
    << JDict([bits |-> <<20>>, attrs |-> EmptyObject]),
       JDict([bits |-> <<10, 20>>, attrs |-> [name |-> "Mr. Pi"]]),
       JDict(EmptyObject),
       JList(<<>>),
       JList(<< [id |-> 155, count |-> 1] >>),
       JList(<< [id |-> 155, count |-> 1], [id |-> 7, count |-> 3] >>),
       JInt(0),
       JInt(2),
       JBool(TRUE),
       JNull >>

WireProfiles ==
    << [id |-> 20, attrs |-> [name |-> "bombo"]],
       [id |-> 1000, attrs |-> EmptyObject] >>

Body(rs, ps, hasResults, hasProfiles) ==
    IF hasResults /\ hasProfiles THEN [results |-> rs, profiles |-> ps]
    ELSE IF hasResults THEN [results |-> rs]
    ELSE IF hasProfiles THEN [profiles |-> ps]
    ELSE EmptyObject

InitDecode ==
    /\ InitWith(0)
    /\ \E ri \in Seqs(1..Len(WireItems), MaxItems), pi \in Seqs(1..Len(WireProfiles), MaxItems),
          hasResults \in BOOLEAN, hasProfiles \in BOOLEAN :
          envelope = Body([i \in 1..Len(ri) |-> WireItems[ri[i]]],
                          [i \in 1..Len(pi) |-> WireProfiles[pi[i]]],
                          hasResults, hasProfiles)
    /\ decoded = None
    /\ acc = None
    /\ NoURI
    /\ NoThreads

ClientVars == <<cluster, client, current_host, dbs, frames, op, err, raw, ret, sent,
                resp, pre, fail, prevFail, ensuredDb, ensuredFr, fresh, calls, removed, trail,
                handed, sends>>

FromDict ==
    /\ ~decoded.some
    /\ decoded' = Some(QueryResponse_from_dict(envelope))
    /\ UNCHANGED <<ClientVars, URIVars, ThreadVars, envelope, acc>>

ReadResult ==
    /\ decoded.some
    /\ acc' = [name |-> "result", value |-> QueryResponse_result(decoded.value), err |-> NoErr]
    /\ UNCHANGED <<ClientVars, URIVars, ThreadVars, envelope, decoded>>

ReadProfile ==
    /\ decoded.some
    /\ acc' = [name |-> "profile", value |-> QueryResponse_profile(decoded.value), err |-> NoErr]
    /\ UNCHANGED <<ClientVars, URIVars, ThreadVars, envelope, decoded>>

NextDecode ==
    \/ FromDict
    \/ ReadResult
    \/ ReadProfile

SpecDecode == InitDecode /\ [][NextDecode]_vars

\* A caller that renders a URI object and parses texts.
SchemeAlphabet == { "h", "+" }

HostAlphabet == { "h", "1", "." }

Ports == { 0, 7, 80, DefaultPort }

Addresses ==
    { URI(scheme, host, port) :
        scheme \in Seqs(SchemeAlphabet, MaxLen) \ { <<>> },
        host \in Seqs(HostAlphabet, MaxLen) \ { <<>> },
        port \in Ports }

\* texts of the class documentation and texts the pattern refuses
GivenTexts ==
    { <<>>,
      << "h" >>,
      << "h", ":", "0", "7" >>,
      << "s", ":", "/", "/", ":", "7" >>,
      << "h", ":", "/", "/" >>,
      << "H", ":", "8", "0" >> }

InitURI ==
    /\ InitWith(0)
    /\ NoDecode
    /\ addr \in Addresses
    /\ utext = NoText
    /\ parsed = None
    /\ NoThreads

\* one text is rendered or given, and then parsed
Str ==
    /\ utext = NoText
    /\ utext' = [by |-> "str", chars |-> URI___str__(addr), was |-> addr]
    /\ UNCHANGED <<ClientVars, DecodeVars, ThreadVars, addr, parsed>>

Normalize ==
    /\ utext = NoText
    /\ LET r == URI_normalize(addr)
       IN  /\ addr' = r.self
           /\ utext' = [by |-> "normalize", chars |-> r.text, was |-> addr]
    /\ UNCHANGED <<ClientVars, DecodeVars, ThreadVars, parsed>>

Given(chars) ==
    /\ utext = NoText
    /\ utext' = [by |-> "caller", chars |-> chars, was |-> addr]
    /\ UNCHANGED <<ClientVars, DecodeVars, ThreadVars, addr, parsed>>

Address ==
    /\ utext # NoText
    /\ parsed = None
    /\ LET r == URI_address(utext.chars)
       IN  parsed' = [from |-> utext, uri |-> r.self, err |-> r.err]
    /\ UNCHANGED <<ClientVars, DecodeVars, ThreadVars, addr, utext>>

NextURI ==
    \/ Str
    \/ Normalize
    \/ \E chars \in GivenTexts : Given(chars)
    \/ Address

SpecURI == InitURI /\ [][NextURI]_vars

\* Threads that share one Cluster. get_host runs line by line, and within
\* lines 257 and 258 the value is computed before it is used or stored; another
\* thread can run between any two of these steps. list.remove is one step.
RestVars == <<client, current_host, dbs, frames, op, err, raw, ret, sent,
              resp, pre, fail, prevFail, ensuredDb, ensuredFr, fresh, calls, removed, trail,
              handed, sends>>

InitThreads ==
    /\ InitWith(MaxHosts)
    /\ \A i \in 1..Len(cluster.hosts) : cluster.hosts[i] \in MixedHosts
    /\ NoDecode
    /\ NoURI
    /\ pc = [t \in Threads |-> "idle"]
    /\ local = [t \in Threads |-> NoLocal]
    /\ sync \in BOOLEAN
    /\ lock = "none"
    /\ done = <<>>
    /\ started = 0

Completed(t, call, host, e) == Append(done, [by |-> t, call |-> call, host |-> host, err |-> e])

\* the call of thread t ends: it returns host or raises e
Leave(t, host, e) ==
    /\ pc' = [pc EXCEPT ![t] = "idle"]
    /\ local' = [local EXCEPT ![t] = NoLocal]
    /\ lock' = "none"
    /\ done' = Completed(t, "get_host", host, e)

Enter(t) ==
    /\ pc[t] = "idle"
    /\ started < MaxOps
    /\ sync => lock = "none"
    /\ lock' = IF sync THEN t ELSE lock
    /\ pc' = [pc EXCEPT ![t] = "255"]
    /\ started' = started + 1
    /\ UNCHANGED <<cluster, local, sync, done, RestVars, DecodeVars, URIVars>>

\* line 255 without its test
CheckLen_skip(t) ==
    /\ pc[t] = "255"
    /\ pc' = [pc EXCEPT ![t] = "257"]
    /\ UNCHANGED <<local, lock, done>>
    /\ UNCHANGED <<cluster, sync, started, RestVars, DecodeVars, URIVars>>

\* if len(self.hosts) == 0: raise
CheckLen(t) ==
    /\ pc[t] = "255"
    /\ IF Len(cluster.hosts) = 0
       THEN Leave(t, NoHost, NoHostsError)
       ELSE /\ pc' = [pc EXCEPT ![t] = "257"]
            /\ UNCHANGED <<local, lock, done>>
    /\ UNCHANGED <<cluster, sync, started, RestVars, DecodeVars, URIVars>>

\* self.__next_index % len(self.hosts)
ComputeIndex(t) ==
    /\ pc[t] = "257"
    /\ IF Len(cluster.hosts) = 0
       THEN Leave(t, NoHost, ZeroDivisionError)
       ELSE /\ local' = [local EXCEPT ![t].index = cluster.next_index % Len(cluster.hosts)]
            /\ pc' = [pc EXCEPT ![t] = "257[]"]
            /\ UNCHANGED <<lock, done>>
    /\ UNCHANGED <<cluster, sync, started, RestVars, DecodeVars, URIVars>>

\* next_host = self.hosts[...]
LoadHost(t) ==
    /\ pc[t] = "257[]"
    /\ IF local[t].index >= Len(cluster.hosts)
       THEN Leave(t, NoHost, IndexError)
       ELSE /\ local' = [local EXCEPT ![t].next_host = cluster.hosts[local[t].index + 1]]
            /\ pc' = [pc EXCEPT ![t] = "258"]
            /\ UNCHANGED <<lock, done>>
    /\ UNCHANGED <<cluster, sync, started, RestVars, DecodeVars, URIVars>>

\* line 258 without the + 1
ComputeNext_no_advance(t) ==
    /\ pc[t] = "258"
    /\ IF Len(cluster.hosts) = 0
       THEN Leave(t, NoHost, ZeroDivisionError)
       ELSE /\ local' = [local EXCEPT ![t].next_index = cluster.next_index % Len(cluster.hosts)]
            /\ pc' = [pc EXCEPT ![t] = "258="]
            /\ UNCHANGED <<lock, done>>
    /\ UNCHANGED <<cluster, sync, started, RestVars, DecodeVars, URIVars>>

\* (self.__next_index + 1) % len(self.hosts)
ComputeNext(t) ==
    /\ pc[t] = "258"
    /\ IF Len(cluster.hosts) = 0
       THEN Leave(t, NoHost, ZeroDivisionError)
       ELSE /\ local' = [local EXCEPT ![t].next_index = (cluster.next_index + 1) % Len(cluster.hosts)]
            /\ pc' = [pc EXCEPT ![t] = "258="]
            /\ UNCHANGED <<lock, done>>
    /\ UNCHANGED <<cluster, sync, started, RestVars, DecodeVars, URIVars>>

\* self.__next_index = ...
StoreNext(t) ==
    /\ pc[t] = "258="
    /\ cluster' = [cluster EXCEPT !.next_index = local[t].next_index]
    /\ pc' = [pc EXCEPT ![t] = "259"]
    /\ UNCHANGED <<local, lock, done, sync, started, RestVars, DecodeVars, URIVars>>

\* return next_host
Return(t) ==
    /\ pc[t] = "259"
    /\ Leave(t, local[t].next_host, NoErr)
    /\ UNCHANGED <<cluster, sync, started, RestVars, DecodeVars, URIVars>>

\* remove_host(uri), called by the thread or by its request that failed
Remove(t, uri) ==
    /\ pc[t] = "idle"
    /\ started < MaxOps
    /\ sync => lock = "none"
    /\ LET r == Cluster_remove_host(cluster, uri)
       IN  /\ cluster' = r.cluster
           /\ done' = Completed(t, "remove_host", uri, r.err)
    /\ started' = started + 1
    /\ UNCHANGED <<pc, local, lock, sync, RestVars, DecodeVars, URIVars>>

NextThreads ==
    \E t \in Threads :
        \/ Enter(t)
        \/ CheckLen(t)
        \/ ComputeIndex(t)
        \/ LoadHost(t)
        \/ ComputeNext(t)
        \/ StoreNext(t)
        \/ Return(t)
        \/ \E uri \in MixedHosts : Remove(t, uri)

SpecThreads == InitThreads /\ [][NextThreads]_vars

-----------------------------------------------------------------------------
(* Properties *)

Distinct(hs) == \A i, j \in 1..Len(hs) : i # j => hs[i] # hs[j]

\* hs without its first entry equal to h (hs itself when it has none)
WithoutFirst(hs, h) ==
    IF \E i \in 1..Len(hs) : hs[i] = h
    THEN LET i == CHOOSE k \in 1..Len(hs) : hs[k] = h /\ \A j \in 1..(k - 1) : hs[j] # h
         IN  SubSeq(hs, 1, i - 1) \o SubSeq(hs, i + 1, Len(hs))
    ELSE hs

IsRequest == op.name \in {"create_database", "delete_database", "create_frame",
                          "delete_frame", "ensure_database", "ensure_frame", "query"}

\* C1: when a request on a pool of at least two distinct hosts fails at
\* transport level, the pool afterwards is the pool before without the first
\* entry equal to the host get_host returned for that request.
C1_RemovedHostIsFailedHost ==
    (IsRequest /\ fail # NoFail /\ Len(pre.hosts) >= 2 /\ Distinct(pre.hosts))
        => cluster.hosts = WithoutFirst(pre.hosts, fail.host)

\* C2: on a pool of at least two distinct hosts, the request right after a
\* request whose transport failed at host H is sent to a host other than H.
C2_NextRequestAvoidsFailedHost ==
    (IsRequest /\ sent # NoHost /\ prevFail # NoFail
        /\ Len(prevFail.pool) >= 2 /\ Distinct(prevFail.pool))
        => sent # prevFail.host

\* C3: every request whose transport fails (the pool was not empty, a host was
\* selected) raises PilosaNotAvailable to the caller, and nothing else.
C3_TransportFailureRaisesNotAvailable ==
    (IsRequest /\ fail # NoFail) => err.kind = "PilosaNotAvailable"

\* C4: on a Cluster still holding the hosts h it was constructed with, the k-th
\* call of get_host returns h[(k-1) mod n].
C4_FreshRotation ==
    (op.name = "get_host" /\ fresh /\ Len(cluster.hosts) >= 1)
        => /\ calls >= 1
           /\ err = NoErr
           /\ ret = Some(cluster.hosts[((calls - 1) % Len(cluster.hosts)) + 1])

C4_Witness ==
    /\ op.name = "get_host"
    /\ fresh
    /\ Len(cluster.hosts) = 3
    /\ Distinct(cluster.hosts)
    /\ calls = 4
    /\ ret = Some(cluster.hosts[1])

\* C5: get_host on an empty pool raises the no-available-hosts error and leaves
\* hosts and cursor as they were; on a non-empty pool it never raises it.
C5_EmptyPoolFails ==
    op.name = "get_host"
        => IF Len(pre.hosts) = 0
           THEN err.kind = "PilosaError" /\ err.msg = "There are no available hosts"
                /\ ret = None /\ cluster = pre
           ELSE err = NoErr

C5_Witness ==
    /\ op.name = "get_host"
    /\ ~fresh
    /\ pre.hosts = <<>>
    /\ pre.next_index > 0
    /\ err = NoHostsError
    /\ cluster = pre

\* C6: remove_host of a host the pool does not hold raises (ValueError, the
\* host-not-found error) and leaves hosts and cursor as they were; of a host
\* the pool holds it deletes the first equal entry and keeps the others in order.
C6_RemoveFirstOrFail ==
    op.name = "remove_host"
        => IF \E i \in 1..Len(pre.hosts) : pre.hosts[i] = op.arg
           THEN /\ err = NoErr
                /\ cluster.hosts = WithoutFirst(pre.hosts, op.arg)
                /\ cluster.next_index = pre.next_index
           ELSE /\ err.kind = "ValueError"
                /\ cluster = pre

C6_Witness ==
    /\ op.name = "remove_host"
    /\ Len(pre.hosts) = 3
    /\ pre.hosts[1] = op.arg
    /\ pre.hosts[2] # op.arg
    /\ pre.hosts[3] = op.arg
    /\ cluster.hosts = <<pre.hosts[2], pre.hosts[3]>>

\* the server received the request and answered from its state
Answered == resp # NoResp /\ resp.status_code # 500

\* C7: against a server that answers without failing, an ensure_database of a
\* database that an earlier ensure_database returned normally for (and that was
\* not deleted since) raises nothing, whatever was created in between; likewise
\* ensure_frame.
C7_EnsureTwice ==
    /\ (op.name = "ensure_database" /\ op.arg[1] \in ensuredDb /\ Answered)
          => err = NoErr
    /\ (op.name = "ensure_frame" /\ op.arg \in ensuredFr /\ Answered)
          => err = NoErr

C7_Witness ==
    /\ op.name = "ensure_database"
    /\ op.arg[1] \in ensuredDb
    /\ frames # {}
    /\ resp.status_code = 409
    /\ resp.text = "database already exists\n"
    /\ raw.kind = "DatabaseExistsError"
    /\ err = NoErr

AlreadyExists(e) == e.kind \in {"DatabaseExistsError", "FrameExistsError"}

C9_StatusMapping ==
    (op.name \in {"create_database", "delete_database", "create_frame", "delete_frame"}
        /\ resp # NoResp)
        => IF 200 <= resp.status_code /\ resp.status_code < 300
           THEN err = NoErr
           ELSE IF resp.text = "database already exists\n"
           THEN err.kind = "DatabaseExistsError"
           ELSE IF resp.text = "frame already exists\n"
           THEN err.kind = "FrameExistsError"
           ELSE err.kind = "PilosaError" /\ err.status = resp.status_code
                /\ err.body = resp.text

C9_Witness ==
    /\ op.name = "create_frame"
    /\ op.arg[1] \notin dbs
    /\ resp.status_code = 404
    /\ err.kind = "PilosaError"
    /\ err.status = 404
    /\ err.body = "database not found\n"

\* C10: a query whose response body has an error key raises the error with
\* exactly that message and returns nothing, whatever the status; one whose
\* body has no error key returns the decoded response and raises nothing.
C10_QueryError ==
    (op.name = "query" /\ resp # NoResp)
        => IF "error" \in DOMAIN resp.json
           THEN err.kind = "PilosaError" /\ err.msg = resp.json["error"] /\ ret = None
           ELSE err = NoErr /\ ret = Some(QueryResponse_from_dict(resp.json))

C10_Witness ==
    /\ op.name = "query"
    /\ resp.status_code = 200
    /\ "error" \in DOMAIN resp.json
    /\ resp.json["error"] = "parse error at col_id"
    /\ err = QueryError("parse error at col_id")
    /\ ret = None

TrailHosts == { trail[i].host : i \in 1..Len(trail) }

\* C11: every request calls get_host once, when it sends: it is addressed to
\* the host at the cursor and moves the cursor one step, sends nothing on an
\* empty pool and does not send again after a transport failure; so n requests
\* in a row without failure on n distinct hosts reach every host.
C11_OneSelectionPerRequest ==
    /\ IsRequest
          => IF Len(pre.hosts) = 0
             THEN sent = NoHost /\ resp = NoResp /\ cluster = pre
             ELSE /\ sent = pre.hosts[(pre.next_index % Len(pre.hosts)) + 1]
                  /\ cluster.next_index = (pre.next_index + 1) % Len(pre.hosts)
                  /\ (fail # NoFail => resp = NoResp)
    /\ (IsRequest /\ Len(cluster.hosts) >= 1 /\ Distinct(cluster.hosts)
            /\ Len(trail) = Len(cluster.hosts))
          => /\ TrailHosts = { cluster.hosts[i] : i \in 1..Len(cluster.hosts) }
             /\ trail[Len(trail)].host = sent

C11_Witness ==
    /\ IsRequest
    /\ Len(cluster.hosts) = 2
    /\ Distinct(cluster.hosts)
    /\ Len(trail) = 2
    /\ trail[1].host = cluster.hosts[2]
    /\ trail[2].host = cluster.hosts[1]
    /\ sent = cluster.hosts[1]

Range(hs) == { hs[i] : i \in 1..Len(hs) }

\* the host get_host handed out in the last operation (NoHost if none)
Returned ==
    IF IsRequest THEN sent
    ELSE IF op.name \in {"get_host", "Client"} /\ ret.some THEN ret.value
    ELSE NoHost

\* the hosts list differs only after add_host, remove_host or a request whose
\* transport failed; add_host appends its host, the other two take one entry out
HostsFrame ==
    /\ cluster.hosts # pre.hosts
          => \/ op.name \in {"add_host", "remove_host"}
             \/ IsRequest /\ fail # NoFail
    /\ op.name = "add_host" => cluster.hosts = Append(pre.hosts, op.arg)
    /\ (op.name # "add_host" /\ cluster.hosts # pre.hosts)
          => \E i \in 1..Len(pre.hosts) :
                cluster.hosts = SubSeq(pre.hosts, 1, i - 1) \o SubSeq(pre.hosts, i + 1, Len(pre.hosts))

\* C12 (as stated): the hosts list changes only by the removal on a transport
\* failure and by add_host/remove_host, and a host that was removed is not handed
\* out by get_host again until it is added again.
C12_RemovedNeverReturned ==
    [][ /\ HostsFrame'
        /\ ((op'.name = "get_host" \/ IsRequest') /\ Returned' # NoHost)
              => Returned' \notin removed ]_vars

\* C12 (amended): the hosts list changes only by the removal on a transport
\* failure and by add_host/remove_host, and get_host hands out only hosts the
\* list holds: a removed host is handed out again only while the list still
\* holds another entry equal to it, or after it was added again.
C12_OnlyListedHostsReturned ==
    /\ HostsFrame
    /\ Returned # NoHost => Returned \in Range(pre.hosts)
    /\ \A h \in removed : h \notin Range(cluster.hosts) =>
          Cluster_get_host(cluster).host # h

C12_Witness ==
    /\ IsRequest
    /\ fail = NoFail
    /\ sent # NoHost
    /\ removed # {}
    /\ sent \notin removed
    /\ removed \cap Range(cluster.hosts) = {}
    /\ cluster.hosts = pre.hosts

IsEmptyObject(o) == DOMAIN o = {}

SameObject(a, b) == DOMAIN a = DOMAIN b /\ \A k \in DOMAIN a : a[k] = b[k]

EmptyBitmap(b) == b.bits = <<>> /\ IsEmptyObject(b.attributes)

\* C13: from_dict decodes results element by element and in order, by shape:
\* an object into a bitmap (its bits and attrs, or empty) with no count items
\* and count 0; an array into one count item [id, count] per element, in order,
\* with empty bitmap and count 0; an integer into count with empty bitmap and no
\* count items. Only the part of the element's shape is filled.
C13_DecodeByShape ==
    decoded.some
        => LET wire == Get(envelope, "results", <<>>)
               out == decoded.value.results
           IN  /\ Len(out) = Len(wire)
               /\ \A i \in 1..Len(wire) :
                    IF wire[i].shape = "dict"
                    THEN /\ out[i].bitmap.bits = Get(wire[i].v, "bits", <<>>)
                         /\ SameObject(out[i].bitmap.attributes, Get(wire[i].v, "attrs", <<>>))
                         /\ out[i].count_items = <<>>
                         /\ out[i].count = 0
                    ELSE IF wire[i].shape = "list"
                    THEN /\ Len(out[i].count_items) = Len(wire[i].v)
                         /\ \A k \in 1..Len(wire[i].v) :
                              /\ out[i].count_items[k].id = wire[i].v[k].id
                              /\ out[i].count_items[k].count = wire[i].v[k].count
                         /\ EmptyBitmap(out[i].bitmap)
                         /\ out[i].count = 0
                    ELSE IF wire[i].shape = "int"
                    THEN /\ out[i].count = wire[i].v
                         /\ EmptyBitmap(out[i].bitmap)
                         /\ out[i].count_items = <<>>
                    ELSE TRUE

C13_Witness ==
    /\ decoded.some
    /\ "results" \in DOMAIN envelope
    /\ Len(envelope.results) = 2
    /\ envelope.results[1].shape = "list"
    /\ Len(envelope.results[1].v) = 2
    /\ envelope.results[2].shape = "int"
    /\ envelope.results[2].v = 2
    /\ Len(decoded.value.results[1].count_items) = 2
    /\ decoded.value.results[1].count_items[2].id = 7
    /\ decoded.value.results[2].count = 2

\* C14: result is the first element of results, or None when results is empty;
\* profile is the first element of profiles, or None when profiles is empty;
\* neither raises, also for a body without the results or the profiles key.
C14_FirstOrNone ==
    /\ decoded.some
          => /\ Len(decoded.value.results) = Len(Get(envelope, "results", <<>>))
             /\ Len(decoded.value.profiles) = Len(Get(envelope, "profiles", <<>>))
    /\ acc # None
          => /\ acc.err = NoErr
             /\ acc.name = "result"
                   => IF Len(Get(envelope, "results", <<>>)) = 0
                      THEN acc.value = None
                      ELSE acc.value = Some(decoded.value.results[1])
             /\ acc.name = "profile"
                   => IF Len(Get(envelope, "profiles", <<>>)) = 0
                      THEN acc.value = None
                      ELSE /\ acc.value = Some(decoded.value.profiles[1])
                           /\ acc.value.value.id = envelope.profiles[1].id

C14_Witness ==
    /\ acc # None
    /\ acc.name = "result"
    /\ "results" \notin DOMAIN envelope
    /\ "profiles" \in DOMAIN envelope
    /\ Len(envelope.profiles) = 2
    /\ acc.value = None

\* C15: for a URI whose scheme is one or more of [+a-z], whose host is one or
\* more of [0-9a-z.-] and whose port is an integer >= 0, URI.address(str(uri))
\* raises nothing and is equal to uri.
C15_RoundTrip ==
    (parsed # None /\ parsed.from.by = "str")
        => /\ parsed.err = NoErr
           /\ URI___eq__(parsed.uri, parsed.from.was)
           /\ URI___eq__(parsed.from.was, parsed.uri)

C15_Witness ==
    /\ parsed # None
    /\ parsed.from.by = "str"
    /\ parsed.from.was = addr
    /\ addr.port = 0
    /\ addr.scheme = << "h", "+" >>
    /\ addr.host = << "1", "h" >>
    /\ parsed.from.chars = << "h", "+", ":", "/", "/", "1", "h", ":", "0" >>
    /\ parsed.uri = addr

\* the scheme with everything from its first "+" on cut off
Cut(scheme) ==
    IF \E i \in 1..Len(scheme) : scheme[i] = "+"
    THEN SubSeq(scheme, 1, (CHOOSE i \in 1..Len(scheme) :
                               scheme[i] = "+" /\ \A j \in 1..(i - 1) : scheme[j] # "+") - 1)
    ELSE scheme

\* C16: normalize renders scheme://host:port with the scheme cut at its first
\* "+", and leaves the URI object as it was; __eq__ compares the scheme as it
\* is, so a URI with a "+" in its scheme differs from the URI with the cut
\* scheme and the same host and port, although both normalize to one text.
C16_NormalizeCutsScheme ==
    utext.by = "normalize"
        => LET was == utext.was
               cut == URI(Cut(was.scheme), was.host, was.port)
               k == Index(utext.chars, ":")
           IN  /\ addr = was
               /\ k = Len(Cut(was.scheme)) + 1
               /\ \A i \in 1..(k - 1) : utext.chars[i] = was.scheme[i] /\ utext.chars[i] # "+"
               /\ SubSeq(utext.chars, k, Len(utext.chars))
                     = << ":", "/", "/" >> \o was.host \o << ":" >> \o Decimal(was.port)
               /\ URI_normalize(cut).text = utext.chars
               /\ (Cut(was.scheme) # was.scheme)
                     => ~URI___eq__(was, cut) /\ ~URI___eq__(cut, was)

C16_Witness ==
    /\ utext.by = "normalize"
    /\ addr.scheme = << "h", "+" >>
    /\ addr.host = << "h", "." >>
    /\ addr.port = 80
    /\ utext.chars = << "h", ":", "/", "/", "h", ".", ":", "8", "0" >>

\* the get_host calls completed since the last remove_host
SinceRemove ==
    LET marks == { i \in 1..Len(done) : done[i].call = "remove_host" }
        from == IF marks = {} THEN 1 ELSE (CHOOSE i \in marks : \A j \in marks : j <= i) + 1
    IN  SubSeq(done, from, Len(done))

SharedRotation ==
    LET n == Len(cluster.hosts)
        got == SinceRemove
    IN  (n >= 1 /\ Distinct(cluster.hosts))
            => \A i \in 1..(Len(got) - n + 1) :
                 /\ \A k \in i..(i + n - 1) : got[k].err = NoErr
                 /\ Distinct([k \in 1..n |-> got[i + k - 1].host])

\* C17 as stated: threads calling get_host on one Cluster of n distinct hosts
\* with no add or remove, their steps interleaved, see one rotation: any n
\* get_host calls completed in a row return n distinct hosts.
C17_SharedRotationUnsynchronised ==
    (\A i \in 1..Len(done) : done[i].call = "get_host") => SharedRotation

\* C17: when the threads put their get_host calls on one Cluster of n distinct
\* hosts under one lock, with no add or remove in between, any n get_host calls
\* completed in a row, counted over all threads, return n distinct hosts.
C17_SharedRotationUnderLock ==
    sync => SharedRotation

C17_Witness ==
    /\ sync
    /\ Len(cluster.hosts) = 2
    /\ Distinct(cluster.hosts)
    /\ Len(done) = 3
    /\ \A i \in 1..3 : done[i].call = "get_host"
    /\ done[1].by = "t1" /\ done[2].by = "t2" /\ done[3].by = "t2"
    /\ done[1].host = cluster.hosts[1]
    /\ done[2].host = cluster.hosts[2]
    /\ done[3].host = cluster.hosts[1]
    /\ pc["t1"] = "258"

GetHostOutcomes ==
    \A i \in 1..Len(done) :
        done[i].call = "get_host"
            => \/ done[i].err = NoErr /\ done[i].host # NoHost
               \/ done[i].err = NoHostsError /\ done[i].host = NoHost

\* C18 as stated: get_host running while another thread runs remove_host on
\* the same Cluster, with no lock around them, returns a host or raises the
\* no-available-hosts error, never a division by zero or an index error.
C18_GetHostSurvivesRemoveUnsynchronised ==
    GetHostOutcomes

\* C18: when the threads put get_host and remove_host on one Cluster under one
\* lock, get_host returns a host or raises the no-available-hosts error, never
\* a division by zero or an index error.
C18_GetHostSurvivesRemoveUnderLock ==
    sync => GetHostOutcomes

C18_Witness ==
    /\ sync
    /\ Len(done) = 3
    /\ done[1].call = "get_host" /\ done[1].by = "t1" /\ done[1].err = NoErr
    /\ done[2].call = "remove_host" /\ done[2].by = "t2" /\ done[2].err = NoErr
    /\ done[2].host = done[1].host
    /\ done[3].call = "get_host" /\ done[3].by = "t1" /\ done[3].err = NoHostsError
    /\ Len(cluster.hosts) = 0

\* C19: after any sequence of add_host, remove_host and get_host calls, also
\* one that leaves the cursor at or past the length, get_host calls in a row on
\* n >= 1 unchanged hosts read distinct positions of the host sequence, n calls
\* read every position once, and each call returns the entry at its position,
\* which is a current member.
C19_DistinctPositions ==
    LET n == Len(cluster.hosts)
    IN  /\ (n >= 1 /\ Len(trail) >= 1)
              => /\ Len(trail) <= n
                 /\ \A i \in 1..Len(trail) :
                      trail[i].host = cluster.hosts[(trail[i].at % n) + 1]
                 /\ \A i \in 1..Len(trail) : \A j \in (i + 1)..Len(trail) :
                      trail[i].at % n # trail[j].at % n
                 /\ Len(trail) = n
                      => { trail[i].at % n : i \in 1..n } = 0..(n - 1)
        /\ (op.name = "get_host" /\ Len(pre.hosts) >= 1)
              => /\ err = NoErr
                 /\ ret.some
                 /\ \E i \in 1..Len(pre.hosts) : pre.hosts[i] = ret.value
                 /\ cluster.hosts = pre.hosts

C19_Witness ==
    /\ op.name = "get_host"
    /\ Len(cluster.hosts) = 2
    /\ Len(trail) = 2
    /\ trail[1].at >= 2
    /\ trail[1].host = cluster.hosts[1]
    /\ trail[2].host = cluster.hosts[2]
    /\ ret = Some(cluster.hosts[2])

FirstIsSecondHost ==
    (handed.open /\ Len(handed.hosts) >= 2 /\ Len(sends) >= 1)
        => sends[1].host = handed.hosts[2]

EmptyPoolRefusesClient ==
    (op.name = "Client" /\ Len(pre.hosts) = 0)
        => /\ err = NoHostsError
           /\ client = "absent"
           /\ sent = NoHost
           /\ resp = NoResp
           /\ sends = <<>>

====
